---- MODULE Spec2Model ----
(***************************************************************************)
(* Lulu UAE Sales Dashboard (app.py): the cached dataset loader, the       *)
(* sidebar filter step, the four KPIs, the nine selectable aggregations    *)
(* and the top-SKU table, as a state machine over the source file, the     *)
(* process-wide load cache and the output of the last completed rerun.     *)
(*                                                                         *)
(* Encoding of values                                                      *)
(*   - a nullable numeric cell is a sequence: NaN == << >>, a value v is   *)
(*     <<v>>; amounts and ages are whole numbers;                          *)
(*   - categorical strings that the code sorts (department, category,      *)
(*     nationality_group, order_month, city, city_zone, sku_id, brand,     *)
(*     channel) are positive integer ids ordered like the strings;         *)
(*     the "All" sentinel of the select boxes is the id 0;                 *)
(*   - a mean is the pair [num, den] it is the quotient of, NaN when the   *)
(*     series is empty.                                                    *)
(***************************************************************************)
EXTENDS Integers, Sequences, FiniteSets, TLC

VARIABLES
    file,    \* the CSV at DATA_PATH: [exists, rows]
    cache,   \* the st.cache_data entry of load_data(DATA_PATH): [loaded, df]
    lock,    \* holder of the entry's compute lock, 0 when free
    pc,      \* per session: where its rerun stands in the load_data call
    local,   \* per session: the table its load_data call has parsed
    reads,   \* number of times pd.read_csv has read the file
    out      \* what the last completed rerun produced

vars == <<file, cache, lock, pc, local, reads, out>>

----------------------------------------------------------------------------
(* Bounds of the model *)

NumSessions == 2
MaxRows == 2

(* Program constants *)

TopChartN == 10
TopSkusN == 50

NaN == << >>
All == 0

Sessions == 1..NumSessions

DayNames == <<"Monday", "Tuesday", "Wednesday", "Thursday", "Friday", "Saturday", "Sunday">>

GraphChoices ==
    {"Monthly Revenue Trend", "Channel Ratio", "Orders by Day of Week",
     "Top Cities", "Top City Zones", "Average Order Value (AOV)",
     "Department Sales", "Category Sales", "Basket Size Distribution"}

----------------------------------------------------------------------------
(* Generic helpers over sequences and sets *)

Range(s) == {s[i] : i \in 1..Len(s)}

Min2(a, b) == IF a <= b THEN a ELSE b

SetMin(S) == CHOOSE x \in S : \A y \in S : x <= y

SetMax(S) == CHOOSE x \in S : \A y \in S : x >= y

RECURSIVE SumSeq(_)
SumSeq(s) == IF s = << >> THEN 0 ELSE s[1] + SumSeq(Tail(s))

(* lexicographic order on tuples of integers of equal length: group keys *)
RECURSIVE LexLess(_, _)
LexLess(a, b) ==
    IF a = << >> THEN FALSE
    ELSE IF a[1] # b[1] THEN a[1] < b[1]
    ELSE LexLess(Tail(a), Tail(b))

(* the keys of K in ascending order *)
SortKeys(K) ==
    LET rank(k) == Cardinality({j \in K : LexLess(j, k)}) + 1
    IN  [i \in 1..Cardinality(K) |-> CHOOSE k \in K : rank(k) = i]

----------------------------------------------------------------------------
(* LOAD DATA: pd.read_csv and the derived / coerced columns *)

(* pd.to_numeric(errors='coerce'): a numeric cell keeps its value, any     *)
(* other text becomes NaN                                                  *)
ToNumeric(cell) == IF cell.numeric THEN <<cell.val>> ELSE NaN

(* pd.to_datetime(df['order_month'], errors='coerce'): labels that are     *)
(* dates (ids >= 1) parse to their month, any other label becomes NaT      *)
ToDatetime(label) == IF label >= 1 THEN <<label>> ELSE NaN

(* .dt.day_name(): day 0 of the calendar is a Monday; NaT gives null *)
DayName(dt) == IF dt = NaN THEN NaN ELSE <<DayNames[(dt[1].day % 7) + 1]>>

(* .dt.hour *)
HourOf(dt) == IF dt = NaN THEN NaN ELSE <<dt[1].hour>>

LoadRow(r) ==
    [order_id          |-> r.order_id,
     order_datetime    |-> r.order_datetime,
     order_month       |-> r.order_month,
     order_month_dt    |-> ToDatetime(r.order_month),
     day_of_week       |-> DayName(r.order_datetime),
     hour_of_day       |-> HourOf(r.order_datetime),
     department        |-> r.department,
     category          |-> r.category,
     nationality_group |-> r.nationality_group,
     age               |-> r.age,
     loyalty_member    |-> r.loyalty_member,
     quantity          |-> ToNumeric(r.quantity),
     line_value_aed    |-> ToNumeric(r.line_value_aed),
     city              |-> r.city,
     city_zone         |-> r.city_zone,
     sku_id            |-> r.sku_id,
     brand             |-> r.brand,
     channel           |-> r.channel,
     basket_size_items |-> r.basket_size_items]

load_data(rows) == [i \in 1..Len(rows) |-> LoadRow(rows[i])]

----------------------------------------------------------------------------
(* SIDEBAR FILTERS: the options the widgets offer *)

(* ["All"] + sorted(df[col].unique()): the order of the options plays no   *)
(* part in what can be selected                                            *)
DepartmentOptions(df) == {All} \cup {df[i].department : i \in 1..Len(df)}

CategoryOptions(df) == {All} \cup {df[i].category : i \in 1..Len(df)}

NationalityOptions(df) == {All} \cup {df[i].nationality_group : i \in 1..Len(df)}

MonthOptions(df) == {All} \cup {df[i].order_month : i \in 1..Len(df)}

(* the non-null ages: Series.min() and Series.max() skip NaN *)
KnownAges(df) == {df[i].age[1] : i \in {j \in 1..Len(df) : df[j].age # NaN}}

(* int(df['age'].min()) raises ValueError when min() is NaN: a table with  *)
(* no row or with no known age                                             *)
SliderRaises(df) == KnownAges(df) = {}

(* int(...) of a whole-number age is that age *)
AgeLow(df) == SetMin(KnownAges(df))

AgeHigh(df) == SetMax(KnownAges(df))

(* st.sidebar.slider(min, max, (min, max)): any pair lo <= hi in the range *)
SliderValues(df) ==
    IF SliderRaises(df) THEN {}
    ELSE {<<lo, hi>> \in (AgeLow(df)..AgeHigh(df)) \X (AgeLow(df)..AgeHigh(df)) : lo <= hi}

(* the slider as the page first shows it: the whole range *)
SliderDefault(df) == <<AgeLow(df), AgeHigh(df)>>

(* every filter specification the widgets of one rerun can produce *)
WidgetSpecs(df) ==
    {[department |-> d, category |-> c, nationality |-> n,
      age_min |-> a[1], age_max |-> a[2], month |-> m] :
        d \in DepartmentOptions(df), c \in CategoryOptions(df),
        n \in NationalityOptions(df), a \in SliderValues(df),
        m \in MonthOptions(df)}

----------------------------------------------------------------------------
(* Apply filters *)

(* variant: the comparison is "at least" instead of "equal" *)
EqMaskAtLeast(value, choice) == value >= choice

(* df_filtered[col] == choice *)
EqMask(value, choice) == value = choice

(* variant: the upper bound is not applied *)
AgeMaskLowerOnly(age, age_min, age_max) ==
    /\ age # NaN
    /\ age[1] >= age_min

(* variant: rows of unknown age pass the mask *)
AgeMaskNullPasses(age, age_min, age_max) ==
    \/ age = NaN
    \/ /\ age[1] >= age_min
       /\ age[1] <= age_max

(* (df_filtered['age'] >= age_min) & (df_filtered['age'] <= age_max):      *)
(* every comparison with NaN is False                                      *)
AgeMask(age, age_min, age_max) ==
    /\ age # NaN
    /\ age[1] >= age_min
    /\ age[1] <= age_max

ApplyFilters(df, f) ==
    LET byDept(r)  == EqMask(r.department, f.department)
        byCat(r)   == EqMask(r.category, f.category)
        byNat(r)   == EqMask(r.nationality_group, f.nationality)
        byAge(r)   == AgeMask(r.age, f.age_min, f.age_max)
        byMonth(r) == EqMask(r.order_month, f.month)
        d0 == df
        d1 == IF f.department # All THEN SelectSeq(d0, byDept) ELSE d0
        d2 == IF f.category # All THEN SelectSeq(d1, byCat) ELSE d1
        d3 == IF f.nationality # All THEN SelectSeq(d2, byNat) ELSE d2
        d4 == SelectSeq(d3, byAge)
        d5 == IF f.month # All THEN SelectSeq(d4, byMonth) ELSE d4
    IN  d5

----------------------------------------------------------------------------
(* Aggregation primitives (pandas) *)

(* Series.sum(): NaN is skipped; the sum of no value is 0 *)
Amount(r) == IF r.line_value_aed = NaN THEN 0 ELSE r.line_value_aed[1]

RECURSIVE SumAmounts(_)
SumAmounts(df) == IF df = << >> THEN 0 ELSE Amount(df[1]) + SumAmounts(Tail(df))

(* variant: the mean of the empty series is 0 *)
MeanZeroWhenEmpty(vals) ==
    IF Len(vals) = 0 THEN <<[num |-> 0, den |-> 1]>>
    ELSE <<[num |-> SumSeq(vals), den |-> Len(vals)]>>

(* Series.mean() of a column without NaN: NaN for the empty series *)
Mean(vals) ==
    IF Len(vals) = 0 THEN NaN
    ELSE <<[num |-> SumSeq(vals), den |-> Len(vals)]>>

(* mean * 100: NaN stays NaN *)
Times100(m) == IF m = NaN THEN NaN ELSE <<[num |-> 100 * m[1].num, den |-> m[1].den]>>

(* Series.nunique() of a column without NaN *)
NUnique(vals) == Cardinality(Range(vals))

(* the group key of row r for groupby(by), by a tuple of column names: the *)
(* tuple of the row's values in these columns; order_month_dt is the one   *)
(* key column that can be null (NaT), and it is only used alone            *)
GroupKey(r, by) ==
    IF by = <<"order_month_dt">> THEN r.order_month_dt
    ELSE [i \in 1..Len(by) |-> r[by[i]]]

(* df.groupby(by)['line_value_aed'].sum(): one entry per distinct key, in  *)
(* ascending key order; rows whose key is null are dropped; a group whose  *)
(* values are all NaN sums to 0                                            *)
GroupSum(df, by) ==
    LET keys == SortKeys({GroupKey(df[i], by) : i \in 1..Len(df)} \ {NaN})
    IN  [g \in 1..Len(keys) |->
            LET inGroup(r) == GroupKey(r, by) = keys[g]
            IN  [key |-> keys[g], val |-> SumAmounts(SelectSeq(df, inGroup))]]

(* Series.sort_values(ascending=False) / DataFrame.sort_values(col,        *)
(* ascending=False) with the default kind='quicksort': the result is in    *)
(* descending order of the sums; quicksort is not stable, so the relative  *)
(* order of equal sums is whatever the build's sort produces. I is the set *)
(* of positions of s still to be placed.                                   *)
RECURSIVE DescOrders(_, _)
DescOrders(s, I) ==
    IF I = {} THEN {<< >>}
    ELSE LET mx  == SetMax({s[i].val : i \in I})
             top == {i \in I : s[i].val = mx}
         IN  UNION {{<<s[i]>> \o rest : rest \in DescOrders(s, I \ {i})} : i \in top}

sort_values(s) == DescOrders(s, 1..Len(s))

(* variant: the series is not cut *)
headWhole(s, n) == s

(* .head(n) *)
head(s, n) == SubSeq(s, 1, Min2(n, Len(s)))

----------------------------------------------------------------------------
(* KPIs *)

ColOrderId(df) == [i \in 1..Len(df) |-> df[i].order_id]

ColLoyalty(df) == [i \in 1..Len(df) |-> df[i].loyalty_member]

ColBasket(df) == [i \in 1..Len(df) |-> df[i].basket_size_items]

Vals(s) == [i \in 1..Len(s) |-> s[i].val]

total_sales(df) == SumAmounts(df)

unique_orders(df) == NUnique(ColOrderId(df))

avg_order_value(df) == Mean(Vals(GroupSum(df, <<"order_id">>)))

loyalty_ratio(df) == Times100(Mean(ColLoyalty(df)))

----------------------------------------------------------------------------
(* VISUALIZATIONS: the series each plot function computes and hands to the *)
(* plotting library                                                        *)

plot_monthly_trend(df) == GroupSum(df, <<"order_month_dt">>)

plot_channel_ratio(df) == GroupSum(df, <<"channel">>)

(* groupby('day_of_week')['order_id'].nunique().reindex([...]): reindex    *)
(* has no fill_value, so a label absent from the grouped index gets NaN    *)
plot_dow(df) ==
    [d \in 1..7 |->
        LET onDay(r) == r.day_of_week = <<DayNames[d]>>
            rows == SelectSeq(df, onDay)
        IN  [key |-> DayNames[d],
             val |-> IF rows = << >> THEN NaN ELSE <<NUnique(ColOrderId(rows))>>]]

plot_top_cities(df) == {head(o, TopChartN) : o \in sort_values(GroupSum(df, <<"city">>))}

plot_top_city_zones(df) == {head(o, TopChartN) : o \in sort_values(GroupSum(df, <<"city_zone">>))}

plot_aov(df) == GroupSum(df, <<"order_id">>)

plot_department_sales(df) ==
    {head(o, TopChartN) : o \in sort_values(GroupSum(df, <<"department">>))}

plot_category_sales(df) ==
    {head(o, TopChartN) : o \in sort_values(GroupSum(df, <<"category">>))}

plot_basket_size(df) == ColBasket(df)

(* the possible results of the selected visualization *)
Chart(graph_choice, df) ==
    CASE graph_choice = "Monthly Revenue Trend"     -> {plot_monthly_trend(df)}
      [] graph_choice = "Channel Ratio"             -> {plot_channel_ratio(df)}
      [] graph_choice = "Orders by Day of Week"     -> {plot_dow(df)}
      [] graph_choice = "Top Cities"                -> plot_top_cities(df)
      [] graph_choice = "Top City Zones"            -> plot_top_city_zones(df)
      [] graph_choice = "Average Order Value (AOV)" -> {plot_aov(df)}
      [] graph_choice = "Department Sales"          -> plot_department_sales(df)
      [] graph_choice = "Category Sales"            -> plot_category_sales(df)
      [] graph_choice = "Basket Size Distribution"  -> {plot_basket_size(df)}

(* TABULAR INSIGHTS *)
top_skus(df) == {head(o, TopSkusN) : o \in sort_values(GroupSum(df, <<"sku_id", "brand", "city_zone">>))}

----------------------------------------------------------------------------
(* One rerun of the script after load_data has returned df *)

(* lines 52-77 and 170-199 for one state of the widgets; the plotting and  *)
(* st.* display calls consume these values and change no state             *)
PassOutputs(df, f, graph_choice, seen) ==
    LET df_filtered == ApplyFilters(df, f)
    IN  {[status          |-> "ok",
          file_seen       |-> seen,
          df              |-> df,
          spec            |-> f,
          graph_choice    |-> graph_choice,
          df_filtered     |-> df_filtered,
          total_sales     |-> total_sales(df_filtered),
          unique_orders   |-> unique_orders(df_filtered),
          avg_order_value |-> avg_order_value(df_filtered),
          loyalty_ratio   |-> loyalty_ratio(df_filtered),
          chart           |-> c,
          top_skus        |-> t] :
            c \in Chart(graph_choice, df_filtered), t \in top_skus(df_filtered)}

(* lines 33-49: the widgets are built from df, then the rest of the script *)
(* runs; the slider line raises when df has no known age. specs is the set *)
(* of widget states the rerun may be in.                                   *)
Rerun(df, specs, choices, seen) ==
    IF SliderRaises(df)
    THEN {[status |-> "sidebar_error", file_seen |-> seen, df |-> df]}
    ELSE UNION {PassOutputs(df, f, g, seen) : f \in specs, g \in choices}

(* the widget states with only the department box moved: the category,    *)
(* nationality and month boxes on "All", the slider on the whole range     *)
SessionSpecs(df) ==
    {f \in WidgetSpecs(df) :
        /\ f.category = All /\ f.nationality = All /\ f.month = All
        /\ <<f.age_min, f.age_max>> = SliderDefault(df)}

(* the widgets as the page first shows them *)
DefaultSpecs(df) == {f \in SessionSpecs(df) : f.department = All}

(* variant: the filter works in place on the table the entry holds *)
EntryFilteredInPlace(entry, o) ==
    IF o.status = "ok" THEN [loaded |-> TRUE, df |-> o.df_filtered] ELSE entry

(* the loaded table once a rerun has worked on it: line 52 copies it, the  *)
(* masks of lines 54-61 and every groupby build new tables, and load_data  *)
(* hands out the entry without giving access to it                         *)
EntryAfterRerun(entry, o) == entry

----------------------------------------------------------------------------
(* Source files *)

Cell(v) == [numeric |-> TRUE, val |-> v]

BadCell == [numeric |-> FALSE, val |-> 0]

At(day, hour) == <<[day |-> day, hour |-> hour]>>

RawRow(oid, dt, month, dept, cat, nat, age, loy, value, city, sku) ==
    [order_id          |-> oid,
     order_datetime    |-> dt,
     order_month       |-> month,
     department        |-> dept,
     category          |-> cat,
     nationality_group |-> nat,
     age               |-> age,
     loyalty_member    |-> loy,
     quantity          |-> Cell(1),
     line_value_aed    |-> value,
     city              |-> city,
     city_zone         |-> city,
     sku_id            |-> sku,
     brand             |-> 1,
     channel           |-> 1 + (oid % 2),
     basket_size_items |-> <<1>>]

(* three line items, two departments, one unparsable amount, one unknown   *)
(* age, orders on Monday and Tuesday only                                  *)
FileA ==
    <<RawRow(1, At(0, 9), 1, 2, 1, 1, <<20>>, 1, Cell(100), 1, 1),
      RawRow(2, At(1, 18), 1, 2, 1, 2, NaN, 0, BadCell, 2, 2),
      RawRow(3, At(7, 9), 0, 1, 1, 1, <<21>>, 1, Cell(50), 1, 3)>>

(* one order of two lines with equal amounts in two cities, on a Sunday *)
FileB ==
    <<RawRow(1, At(6, 12), 1, 1, 1, 1, <<30>>, 0, Cell(7), 2, 1),
      RawRow(1, At(6, 12), 1, 1, 2, 1, <<30>>, 0, Cell(7), 1, 2)>>

(* a header and no line *)
FileC == << >>

FileVersions == {FileA, FileB, FileC}

Missing == [exists |-> FALSE, rows |-> << >>]

Present(rows) == [exists |-> TRUE, rows |-> rows]

FileStates == {Missing} \cup {Present(t) : t \in FileVersions}

NotCached == [loaded |-> FALSE, df |-> << >>]

Cached(df) == [loaded |-> TRUE, df |-> df]

NoOutput == [status |-> "none"]

----------------------------------------------------------------------------
(* st.cache_data around load_data *)

(* variant: an entry counts only while the file still has the content it   *)
(* was read from                                                           *)
CacheHitWhileFresh(c, f) == c.loaded /\ (f.exists => c.df = load_data(f.rows))

(* Cache.read_result(value_key): the key is made of the function and its   *)
(* argument, the path; the file's content or mtime is no part of it        *)
CacheHit(c, f) == c.loaded

(* variant: no mutual exclusion between the sessions that missed *)
CanAcquireAlways(l) == TRUE

(* the per-key compute lock is taken only when free *)
CanAcquire(l) == l = 0

Init ==
    /\ file \in FileStates
    /\ cache = NotCached
    /\ lock = 0
    /\ pc = [s \in Sessions |-> "idle"]
    /\ local = [s \in Sessions |-> << >>]
    /\ reads = 0
    /\ out = NoOutput

(* a rerun whose load_data call finds the entry: the script runs on it *)
LookupHit(s) ==
    /\ pc[s] = "idle"
    /\ CacheHit(cache, file)
    /\ out' \in Rerun(cache.df, SessionSpecs(cache.df), GraphChoices, file)
    /\ cache' = EntryAfterRerun(cache, out')
    /\ UNCHANGED <<file, lock, pc, local, reads>>

(* a rerun whose load_data call finds no entry: it goes for the lock *)
LookupMiss(s) ==
    /\ pc[s] = "idle"
    /\ ~CacheHit(cache, file)
    /\ pc' = [pc EXCEPT ![s] = "wait"]
    /\ UNCHANGED <<file, cache, lock, local, reads, out>>

Acquire(s) ==
    /\ pc[s] = "wait"
    /\ CanAcquire(lock)
    /\ lock' = s
    /\ pc' = [pc EXCEPT ![s] = "locked"]
    /\ UNCHANGED <<file, cache, local, reads, out>>

(* under the lock the entry is looked up again; another session has filled *)
(* it meanwhile                                                            *)
RecheckHit(s) ==
    /\ pc[s] = "locked"
    /\ CacheHit(cache, file)
    /\ lock' = 0
    /\ pc' = [pc EXCEPT ![s] = "idle"]
    /\ out' \in Rerun(cache.df, SessionSpecs(cache.df), GraphChoices, file)
    /\ cache' = EntryAfterRerun(cache, out')
    /\ UNCHANGED <<file, local, reads>>

(* pd.read_csv raises on a missing file: nothing is stored, the rerun ends *)
ReadFail(s) ==
    /\ pc[s] = "locked"
    /\ ~CacheHit(cache, file)
    /\ ~file.exists
    /\ lock' = 0
    /\ pc' = [pc EXCEPT ![s] = "idle"]
    /\ out' = [status |-> "load_error", file_seen |-> file]
    /\ UNCHANGED <<file, cache, local, reads>>

(* the body of load_data: the file is read and parsed *)
ReadCsv(s) ==
    /\ pc[s] = "locked"
    /\ ~CacheHit(cache, file)
    /\ file.exists
    /\ reads' = reads + 1
    /\ local' = [local EXCEPT ![s] = load_data(file.rows)]
    /\ pc' = [pc EXCEPT ![s] = "store"]
    /\ UNCHANGED <<file, cache, lock, out>>

(* the result is stored, the lock released, and the script runs on it *)
Store(s) ==
    /\ pc[s] = "store"
    /\ lock' = 0
    /\ local' = [local EXCEPT ![s] = << >>]
    /\ pc' = [pc EXCEPT ![s] = "idle"]
    /\ out' \in Rerun(local[s], SessionSpecs(local[s]), GraphChoices, file)
    /\ cache' = EntryAfterRerun(Cached(local[s]), out')
    /\ UNCHANGED <<file, reads>>

(* the environment replaces, removes or creates the file *)
ChangeFile ==
    /\ file' \in FileStates \ {file}
    /\ UNCHANGED <<cache, lock, pc, local, reads, out>>

Next ==
    \/ \E s \in Sessions : LookupHit(s)
    \/ \E s \in Sessions : LookupMiss(s)
    \/ \E s \in Sessions : Acquire(s)
    \/ \E s \in Sessions : RecheckHit(s)
    \/ \E s \in Sessions : ReadFail(s)
    \/ \E s \in Sessions : ReadCsv(s)
    \/ \E s \in Sessions : Store(s)
    \/ ChangeFile

Spec == Init /\ [][Next]_vars

----------------------------------------------------------------------------
(* Reruns of a session on a loaded table, every widget free *)

InitLoaded(tables) ==
    /\ \E t \in tables :
        /\ file = Present(t)
        /\ cache = Cached(load_data(t))
    /\ lock = 0
    /\ pc = [s \in Sessions |-> "idle"]
    /\ local = [s \in Sessions |-> << >>]
    /\ reads = 1
    /\ out = NoOutput

InitPass == InitLoaded(FileVersions)

FirstRerun(s) ==
    /\ out = NoOutput
    /\ pc[s] = "idle"
    /\ CacheHit(cache, file)
    /\ out' \in Rerun(cache.df, WidgetSpecs(cache.df), GraphChoices, file)
    /\ cache' = EntryAfterRerun(cache, out')
    /\ UNCHANGED <<file, lock, pc, local, reads>>

NextPass == \E s \in Sessions : FirstRerun(s)

SpecPass == InitPass /\ [][NextPass]_vars

----------------------------------------------------------------------------
(* The filter step and total_sales on bounded tables, for every filter     *)
(* specification of the interface                                          *)

Departments == {1, 2}

Categories == {1, 2}

Ages == {NaN, <<20>>, <<21>>}

AgeBounds == 19..22

(* one kind of line per department, category and age; the amount is        *)
(* unparsable in half of the (department, category) pairs                  *)
RawKinds ==
    {RawRow(d, At(0, 9), 1, d, c, 1, a, 1,
            IF (d + c) % 2 = 0 THEN Cell(d) ELSE BadCell, 1, 1) :
        d \in Departments, c \in Categories, a \in Ages}

RawTables == UNION {[1..n -> RawKinds] : n \in 0..MaxRows}

FilterSpecs ==
    [department  : {All} \cup Departments,
     category    : {All} \cup Categories,
     nationality : {All, 1},
     age_min     : AgeBounds,
     age_max     : AgeBounds,
     month       : {All, 1}]

InitFilter == InitLoaded(RawTables)

(* lines 52-61 and 69 *)
FilterStep ==
    /\ out = NoOutput
    /\ \E f \in FilterSpecs :
        LET df_filtered == ApplyFilters(cache.df, f)
        IN  out' = [status      |-> "ok",
                    file_seen   |-> file,
                    df          |-> cache.df,
                    spec        |-> f,
                    df_filtered |-> df_filtered,
                    total_sales |-> total_sales(df_filtered)]
    /\ cache' = EntryAfterRerun(cache, out')
    /\ UNCHANGED <<file, lock, pc, local, reads>>

NextFilter == FilterStep

SpecFilter == InitFilter /\ [][NextFilter]_vars

----------------------------------------------------------------------------
(* The top-N aggregations on tables with more groups than the top-N keeps  *)

TopChoices == {"Top Cities", "Top City Zones", "Department Sales", "Category Sales"}

GroupCounts == (1..3) \cup {TopChartN + 1, TopSkusN + 1}

(* group i holds one line of amount i (or of amount 1 when flat) *)
TopLine(i, flat) ==
    RawRow(i, At(i, 9), 1, i, i, 1, <<20>>, 1, Cell(IF flat THEN 1 ELSE i), i, i)

(* n groups, and a second line of amount 1 in group extra when extra > 0 *)
TopTable(n, extra, flat) ==
    [i \in 1..n |-> TopLine(i, flat)]
        \o (IF extra = 0 THEN << >> ELSE <<TopLine(extra, TRUE)>>)

TopTables ==
    UNION {{TopTable(n, e, FALSE) : e \in 0..n} : n \in GroupCounts}
        \cup {TopTable(n, 0, TRUE) : n \in 1..3}

InitTopN == InitLoaded(TopTables)

TopRerun(s) ==
    /\ out = NoOutput
    /\ pc[s] = "idle"
    /\ CacheHit(cache, file)
    /\ out' \in Rerun(cache.df, DefaultSpecs(cache.df), TopChoices, file)
    /\ cache' = EntryAfterRerun(cache, out')
    /\ UNCHANGED <<file, lock, pc, local, reads>>

NextTopN == \E s \in Sessions : TopRerun(s)

SpecTopN == InitTopN /\ [][NextTopN]_vars

----------------------------------------------------------------------------
(* Properties *)

Ran == out.status = "ok"

(* row r satisfies every active predicate of the filter specification f *)
Satisfies(r, f) ==
    /\ f.department # All => r.department = f.department
    /\ f.category # All => r.category = f.category
    /\ f.nationality # All => r.nationality_group = f.nationality
    /\ f.month # All => r.order_month = f.month
    /\ r.age # NaN
    /\ f.age_min <= r.age[1]
    /\ r.age[1] <= f.age_max

(* C1: the filtered table has at most as many rows as the loaded table,    *)
(* and each of its rows satisfies every active predicate: equality on each *)
(* field that is not "All", and age_min <= age <= age_max.                 *)
C1_FilteredRowsSatisfy ==
    Ran =>
        /\ Len(out.df_filtered) <= Len(out.df)
        /\ \A i \in 1..Len(out.df_filtered) : Satisfies(out.df_filtered[i], out.spec)

C1_Witness ==
    /\ Ran
    /\ out.spec.department # All
    /\ out.spec.category # All
    /\ out.df_filtered # << >>
    /\ Len(out.df_filtered) < Len(out.df)

(* C2: with every select box on "All" and the age range at its default     *)
(* (the observed minimum and maximum), the filtered table holds every row  *)
(* of the loaded table, rows of unknown age included.                      *)
C2_NoFilterKeepsEveryRow ==
    (Ran /\ out.spec \in DefaultSpecs(out.df)) => out.df_filtered = out.df

OrdersOn(df, day) ==
    Cardinality({df[i].order_id : i \in {j \in 1..Len(df) : df[j].day_of_week = <<day>>}})

(* C4: the weekday aggregation has seven entries, Monday to Sunday, each   *)
(* the number of distinct orders of that day; a day without orders is 0.   *)
C4_WeekdaysZeroFilled ==
    (Ran /\ out.graph_choice = "Orders by Day of Week") =>
        /\ Len(out.chart) = 7
        /\ \A d \in 1..7 :
            /\ out.chart[d].key = DayNames[d]
            /\ out.chart[d].val = <<OrdersOn(out.df_filtered, DayNames[d])>>

AtMost(res, n) == Len(res) <= n

Descending(res) == \A i \in 1..(Len(res) - 1) : res[i].val >= res[i + 1].val

(* equal sums keep the order the groups had before the sort: key order *)
TiesInOriginalOrder(res) ==
    \A i \in 1..Len(res) : \A j \in (i + 1)..Len(res) :
        res[i].val = res[j].val => LexLess(res[i].key, res[j].key)

(* res is made of the n greatest groups of the grouped sums *)
GreatestOf(res, groups, n) ==
    /\ Len(res) = Min2(n, Len(groups))
    /\ Range(res) \subseteq Range(groups)
    /\ Cardinality(Range(res)) = Len(res)
    /\ \A g \in Range(groups) \ Range(res) : \A i \in 1..Len(res) : g.val <= res[i].val

ChartGroups(graph_choice, df) ==
    CASE graph_choice = "Top Cities"       -> GroupSum(df, <<"city">>)
      [] graph_choice = "Top City Zones"   -> GroupSum(df, <<"city_zone">>)
      [] graph_choice = "Department Sales" -> GroupSum(df, <<"department">>)
      [] graph_choice = "Category Sales"   -> GroupSum(df, <<"category">>)

OtherDepartments(df, a) ==
    LET notA(r) == r.department # a
    IN  SelectSeq(df, notA)

AnyDepartment(f) == [f EXCEPT !.department = All]

(* C6: total sales of the rows of department A plus total sales of the     *)
(* rows of the other departments is total sales without the department     *)
(* filter, the other filters being the same in the three sums; rows with   *)
(* a null amount add nothing to any of them.                               *)
C6_TotalSalesAdditive ==
    (Ran /\ out.spec.department # All) =>
        out.total_sales
            + total_sales(ApplyFilters(OtherDepartments(out.df, out.spec.department),
                                       AnyDepartment(out.spec)))
            = total_sales(ApplyFilters(out.df, AnyDepartment(out.spec)))

C6_Witness ==
    /\ Ran
    /\ out.spec.department # All
    /\ total_sales(ApplyFilters(out.df, AnyDepartment(out.spec))) > out.total_sales
    /\ \E i \in 1..Len(out.df_filtered) : out.df_filtered[i].line_value_aed = NaN

(* C7: whatever the interleaving of the sessions' reruns, the file is read *)
(* and parsed at most once, by at most one session at a time, and an entry *)
(* in the cache means that it has been read exactly once.                  *)
C7_FileReadAtMostOnce ==
    /\ reads <= 1
    /\ cache.loaded => reads = 1
    /\ Cardinality({s \in Sessions : pc[s] = "store"}) <= 1

C7_Witness ==
    /\ reads = 1
    /\ cache.loaded
    /\ \E s \in Sessions : pc[s] = "wait"
    /\ Ran

(* C8: once loaded, the cached table is never changed by a rerun, whatever *)
(* its filters and its chart.                                              *)
C8_LoadedTableNeverMutated == [][cache.loaded => cache' = cache]_vars

C8_Witness ==
    /\ Ran
    /\ cache.loaded
    /\ cache.df = out.df
    /\ out.df_filtered # out.df
    /\ out.df_filtered # << >>

(* C9 as stated: a rerun that finds the file changed works on a table that *)
(* reflects the file's new content.                                        *)
C9_RereadAfterChange ==
    (out.status \in {"ok", "sidebar_error"} /\ out.file_seen.exists) =>
        out.df = load_data(out.file_seen.rows)

(* C9 amended: once the entry exists, every load_data call returns its     *)
(* table without reading the file, whatever the file holds by then.        *)
C9_EntryOutlivesSource ==
    [][(cache.loaded /\ out' # out) => (out'.df = cache.df /\ reads' = reads)]_vars

C9_Witness ==
    /\ Ran
    /\ cache.loaded
    /\ out.df = cache.df
    /\ out.file_seen.exists
    /\ out.df # load_data(out.file_seen.rows)

Clamp(x, lo, hi) == IF x < lo THEN lo ELSE IF x > hi THEN hi ELSE x

ClampedSpec(f, df) ==
    [f EXCEPT !.age_min = Clamp(@, AgeLow(df), AgeHigh(df)),
              !.age_max = Clamp(@, AgeLow(df), AgeHigh(df))]

InvalidRange(f, df) ==
    \/ f.age_min > f.age_max
    \/ f.age_min < AgeLow(df) \/ f.age_min > AgeHigh(df)
    \/ f.age_max < AgeLow(df) \/ f.age_max > AgeHigh(df)

(* the range is reversed or lies wholly above or below the observed ages *)
MissesEveryAge(f, df) ==
    \/ f.age_min > f.age_max
    \/ f.age_min > AgeHigh(df)
    \/ f.age_max < AgeLow(df)

====
